---------------------------- MODULE Spec2Model ----------------------------
(***************************************************************************)
(* SNow-2-Slack-Bot: the ServiceNow data helper (URL building and parsing, *)
(* the unify_data_for__* normalizers) and the two Slack event handlers     *)
(* (link_shared, reaction_added).                                          *)
(*                                                                         *)
(* Text is modelled character by character: a Python str is a sequence of  *)
(* one-character strings, so that quoting, unquoting and URL splitting are *)
(* computed the way urllib computes them.                                  *)
(***************************************************************************)
EXTENDS Integers, Sequences, FiniteSets, TLC

VARIABLES
    sn_host,    \* SnowDataHelper.sn_host (Core.sdh)
    op,         \* the helper function that was applied last, "none" before
    arg,        \* the arguments the helper function is applied to
    ret,        \* what it returned or raised
    hpc,        \* where the running event handler is
    event,      \* the Slack event being handled
    src_msg,    \* how many matches each of the four regexps has in the reacted message
    cat,        \* which of the four scans of reaction_added is running
    idx,        \* the next match (reaction_added) or link (link_shared)
    unfurls,    \* handle_link_shared_event's unfurls dict, as a set of url/blocks entries
    log,        \* the calls made to Slack and to ServiceNow, in order
    err         \* the exception that left the handler, "none" otherwise

vars == <<sn_host, op, arg, ret, hpc, event, src_msg, cat, idx, unfurls, log, err>>

handlerVars == <<hpc, event, src_msg, cat, idx, unfurls, log, err>>

--------------------------------------------------------------------------
(* Characters.                                                             *)

\* Printable ASCII, 0x20 .. 0x7E, in code order.
Ascii ==
    <<" ", "!", "\"", "#", "$", "%", "&", "'", "(", ")", "*", "+", ",", "-", ".", "/",
      "0", "1", "2", "3", "4", "5", "6", "7", "8", "9", ":", ";", "<", "=", ">", "?",
      "@", "A", "B", "C", "D", "E", "F", "G", "H", "I", "J", "K", "L", "M", "N", "O",
      "P", "Q", "R", "S", "T", "U", "V", "W", "X", "Y", "Z", "[", "\\", "]", "^", "_",
      "<backtick>", "a", "b", "c", "d", "e", "f", "g", "h", "i", "j", "k", "l", "m", "n", "o",
      "p", "q", "r", "s", "t", "u", "v", "w", "x", "y", "z", "{", "|", "}", "~">>

Ord(c) == 31 + CHOOSE i \in 1..Len(Ascii) : Ascii[i] = c

\* A byte outside printable ASCII decodes to no character of the model.
Replacement == "<byte>"

Chr(b) == IF b >= 32 /\ b <= 126 THEN Ascii[b - 31] ELSE Replacement

Digits == {"0", "1", "2", "3", "4", "5", "6", "7", "8", "9"}

Lower == {Ascii[i] : i \in 66..91}

Upper == {Ascii[i] : i \in 34..59}

HexDigits == <<"0", "1", "2", "3", "4", "5", "6", "7", "8", "9", "A", "B", "C", "D", "E", "F">>

LowerHex == <<"0", "1", "2", "3", "4", "5", "6", "7", "8", "9", "a", "b", "c", "d", "e", "f">>

IsHex(c) == \E i \in 1..16 : HexDigits[i] = c \/ LowerHex[i] = c

HexVal(c) == (CHOOSE i \in 1..16 : HexDigits[i] = c \/ LowerHex[i] = c) - 1

\* urllib.parse._ALWAYS_SAFE
AlwaysSafe == Lower \cup Upper \cup Digits \cup {"_", ".", "-", "~"}

--------------------------------------------------------------------------
(* Python evaluates an argument once, before the call.  Bind(v, F) is F(v) *)
(* with v evaluated once, whatever way F uses it.                          *)
Bind(v, F(_)) == CHOOSE r \in {F(x) : x \in {v}} : TRUE

--------------------------------------------------------------------------
(* urllib.parse.quote(s, safe="/") and urllib.parse.unquote(s).            *)

QuoteChar(c) ==
    IF c \in AlwaysSafe \cup {"/"}
    THEN <<c>>
    ELSE <<"%", HexDigits[(Ord(c) \div 16) + 1], HexDigits[(Ord(c) % 16) + 1]>>

\* "".join(pieces[lo..hi]), by halves.
RECURSIVE Join(_, _, _)
Join(pieces, lo, hi) ==
    IF lo > hi THEN <<>>
    ELSE IF lo = hi THEN pieces[lo]
    ELSE Bind((lo + hi) \div 2, LAMBDA mid : Join(pieces, lo, mid) \o Join(pieces, mid + 1, hi))

Quote(s) ==
    Bind(s, LAMBDA t :
    Bind([i \in 1..Len(t) |-> QuoteChar(t[i])], LAMBDA pieces : Join(pieces, 1, Len(t))))

\* A "%" followed by two hex digits; hex digits are never "%", so escapes do
\* not overlap.
IsEscape(s, i) == s[i] = "%" /\ i + 2 <= Len(s) /\ IsHex(s[i + 1]) /\ IsHex(s[i + 2])

\* What position i of s contributes to unquote(s).
UnquoteAt(s, i) ==
    IF IsEscape(s, i) THEN <<Chr(16 * HexVal(s[i + 1]) + HexVal(s[i + 2]))>>
    ELSE IF (i > 1 /\ IsEscape(s, i - 1)) \/ (i > 2 /\ IsEscape(s, i - 2)) THEN <<>>
    ELSE <<s[i]>>

Unquote(s) ==
    Bind(s, LAMBDA t :
    Bind([i \in 1..Len(t) |-> UnquoteAt(t, i)], LAMBDA pieces : Join(pieces, 1, Len(t))))

--------------------------------------------------------------------------
(* urllib.parse.urlparse and urllib.parse.parse_qs, as parse_snow_url uses *)
(* them.                                                                   *)

Min(a, b) == IF a <= b THEN a ELSE b

\* str.find for a set of characters from position i, 1-based; Len(s) + 1 when
\* there is none.
FindFrom(s, cs, i) ==
    Bind({j \in i..Len(s) : s[j] \in cs}, LAMBDA hits :
        IF hits = {} THEN Len(s) + 1 ELSE CHOOSE j \in hits : \A k \in hits : j <= k)

\* str.rfind up to position i, 1-based; 0 when there is none.
RFindFrom(s, cs, i) ==
    Bind({j \in 1..i : s[j] \in cs}, LAMBDA hits :
        IF hits = {} THEN 0 ELSE CHOOSE j \in hits : \A k \in hits : j >= k)

From(s, i) == SubSeq(s, i, Len(s))

SchemeChars == Lower \cup Upper \cup Digits \cup {"+", "-", "."}

\* The schemes of urllib.parse.uses_params that the model's URLs can carry.
UsesParams == {<<>>, <<"h", "t", "t", "p">>, <<"h", "t", "t", "p", "s">>}

\* Where the scheme's ":" is, 0 when the URL has no scheme.
SchemeEnd(u) ==
    Bind(FindFrom(u, {":"}, 1), LAMBDA c :
        IF /\ c > 1
           /\ c <= Len(u)
           /\ u[1] \in Lower \cup Upper
           /\ \A k \in 1..(c - 1) : u[k] \in SchemeChars
        THEN c ELSE 0)

\* Where the text after //netloc starts; p when no netloc follows position p.
NetlocEnd(u, p) ==
    IF p + 2 <= Len(u) /\ u[p + 1] = "/" /\ u[p + 2] = "/"
    THEN FindFrom(u, {"/", "?", "#"}, p + 3) - 1
    ELSE p

\* urlsplit: scheme, netloc, path, query, fragment.
UrlSplit(url) ==
    Bind(url, LAMBDA u :
    Bind(SchemeEnd(u), LAMBDA c :
    Bind(NetlocEnd(u, c), LAMBDA d :
    Bind(FindFrom(u, {"#"}, d + 1), LAMBDA h :
    Bind(Min(FindFrom(u, {"?"}, d + 1), h), LAMBDA q :
        [scheme |-> SubSeq(u, 1, c - 1),
         netloc |-> SubSeq(u, c + 3, d),
         path |-> SubSeq(u, d + 1, q - 1),
         query |-> SubSeq(u, q + 1, h - 1),
         fragment |-> From(u, h + 1)])))))

\* urlparse: urlsplit, then the ;params of the last path segment are split off.
UrlParse(url) ==
    Bind(UrlSplit(url), LAMBDA u :
    Bind(FindFrom(u.path, {";"}, RFindFrom(u.path, {"/"}, Len(u.path)) + 1), LAMBDA semi :
        IF u.scheme \in UsesParams /\ semi <= Len(u.path)
        THEN [scheme |-> u.scheme, netloc |-> u.netloc,
              path |-> SubSeq(u.path, 1, semi - 1), params |-> From(u.path, semi + 1),
              query |-> u.query, fragment |-> u.fragment]
        ELSE [scheme |-> u.scheme, netloc |-> u.netloc,
              path |-> u.path, params |-> <<>>,
              query |-> u.query, fragment |-> u.fragment]))

\* str.split(sep) from position i: the pieces between the separators, empty
\* ones kept.
RECURSIVE SplitFrom(_, _, _)
SplitFrom(s, sep, i) ==
    Bind(FindFrom(s, {sep}, i), LAMBDA j :
        IF j > Len(s) THEN <<SubSeq(s, i, Len(s))>>
        ELSE Bind(j + 1, LAMBDA k : <<SubSeq(s, i, j - 1)>> \o SplitFrom(s, sep, k)))

Split(s, sep) == Bind(s, LAMBDA t : SplitFrom(t, sep, 1))

PlusToSpace(s) == [i \in 1..Len(s) |-> IF s[i] = "+" THEN " " ELSE s[i]]

\* One name=value piece of the query: no pair when the piece is empty, has no
\* "=" or has an empty value (keep_blank_values=False).
QslPair(piece) ==
    Bind(piece, LAMBDA nv :
    Bind(FindFrom(nv, {"="}, 1), LAMBDA e :
        IF e >= Len(nv) THEN <<>>
        ELSE <<[name |-> Unquote(PlusToSpace(SubSeq(nv, 1, e - 1))),
                value |-> Unquote(PlusToSpace(From(nv, e + 1)))]>>))

RECURSIVE QslPairs(_, _)
QslPairs(pieces, i) ==
    IF i > Len(pieces) THEN <<>>
    ELSE Bind(i + 1, LAMBDA j : QslPair(pieces[i]) \o QslPairs(pieces, j))

\* parse_qsl(qs, keep_blank_values=False, separator="&"): the (name, value) pairs.
ParseQsl(query) == Bind(Split(query, "&"), LAMBDA pieces : QslPairs(pieces, 1))

\* parse_qs(qs)[name]: the values of name, in order (empty: name not in the dict).
QsValues(query, name) ==
    Bind(ParseQsl(query), LAMBDA pairs : SelectSeq(pairs, LAMBDA p : p.name = name))

SysIdKey == <<"s", "y", "s", "_", "i", "d">>

NoParse == [table |-> <<>>, sys_id |-> <<>>]

ParseRaised(e) == [err |-> e, val |-> NoParse]

ParseReturned(table, sys_id) == [err |-> "none", val |-> [table |-> table, sys_id |-> sys_id]]

\* table = parsed_url.path.split("/").pop()
LastOf(segs) == segs[Len(segs)]

\* parse_snow_url without its urllib.parse.unquote(url) step.
ParseSnowUrlNoUnquote(url) ==
    Bind(UrlParse(url), LAMBDA parsed_url :
    Bind(QsValues(parsed_url.query, SysIdKey), LAMBDA captured :
        IF captured = <<>>
        THEN ParseRaised("ValueError")
        ELSE ParseReturned(LastOf(Split(parsed_url.path, "/")), captured[1].value)))

\* parse_snow_url taking the last sys_id value, captured_value["sys_id"][-1].
ParseSnowUrlLastValue(url) ==
    Bind(UrlParse(Unquote(url)), LAMBDA parsed_url :
    Bind(QsValues(parsed_url.query, SysIdKey), LAMBDA captured :
        IF captured = <<>>
        THEN ParseRaised("ValueError")
        ELSE ParseReturned(LastOf(Split(parsed_url.path, "/")), captured[Len(captured)].value)))

\* SnowDataHelper.parse_snow_url
parse_snow_url(url) ==
    Bind(UrlParse(Unquote(url)), LAMBDA parsed_url :
    Bind(QsValues(parsed_url.query, SysIdKey), LAMBDA captured :
        IF captured = <<>>
        THEN ParseRaised("ValueError")
        ELSE ParseReturned(LastOf(Split(parsed_url.path, "/")), captured[1].value)))

Https == <<"h", "t", "t", "p", "s", ":", "/", "/">>

TargetPath ==
    <<"/", "n", "o", "w", "/", "n", "a", "v", "/", "u", "i", "/",
      "c", "l", "a", "s", "s", "i", "c", "/", "p", "a", "r", "a", "m", "s", "/",
      "t", "a", "r", "g", "e", "t", "/">>

SysIdQuery == <<"?">> \o SysIdKey \o <<"=">>

\* The f-string of build_snow_url before it is quoted.
SnowUrlText(host, table, sys_id) == host \o TargetPath \o table \o SysIdQuery \o sys_id

\* build_snow_url with the query delimiters kept out of the quoting.
BuildSnowUrlLiteralQuery(host, table, sys_id) ==
    Https \o Quote(host \o TargetPath \o table) \o SysIdQuery \o Quote(sys_id)

\* SnowDataHelper.build_snow_url, with self.sn_host = host
build_snow_url(host, table, sys_id) == Https \o Quote(SnowUrlText(host, table, sys_id))

\* The ServiceNow table names.
DotDo == <<".", "d", "o">>

ScTask == <<"s", "c", "_", "t", "a", "s", "k">>

ScReqItem == <<"s", "c", "_", "r", "e", "q", "_", "i", "t", "e", "m">>

ScRequest == <<"s", "c", "_", "r", "e", "q", "u", "e", "s", "t">>

Incident == <<"i", "n", "c", "i", "d", "e", "n", "t">>

ChangeRequest == <<"c", "h", "a", "n", "g", "e", "_", "r", "e", "q", "u", "e", "s", "t">>

--------------------------------------------------------------------------
(* The normalizers: unify_data_for__sc_req_item, __incident, __sc_task and *)
(* __change_request.  A raw ticket is a function from the keys it has to   *)
(* their values; a result is the canonical ticket, or the KeyError raised. *)

\* snow_maps.sc_task_state_map: the labels of the task, request item and
\* request states, by state code as the table API returns it.
sc_task_state_map ==
    [c \in {"1", "2", "3"} |->
        CASE c = "1" -> "Open" [] c = "2" -> "Work in Progress" [] c = "3" -> "Closed Complete"]

\* snow_maps.incidents_state_map
incidents_state_map ==
    [c \in {"1", "2", "6"} |->
        CASE c = "1" -> "New" [] c = "2" -> "In Progress" [] c = "6" -> "Resolved"]

NA == "N/A"

NoTicket == [k \in {} |-> NA]

Raised(e, k) == [err |-> e, key |-> k, val |-> NoTicket]

Returned(t) == [err |-> "none", key |-> "", val |-> t]

\* item_data[k] if k in item_data else "N/A"
Field(item_data, k) == IF k \in DOMAIN item_data THEN item_data[k] ELSE NA

\* The dict literal the four normalizers share, its state and target_link
\* entries computed by the caller.
OutData(d, state, created_by, link) ==
    [task_effective_number |-> Field(d, "task_effective_number"),
     short_description |-> Field(d, "short_description"),
     sys_created_on |-> Field(d, "sys_created_on"),
     priority |-> Field(d, "priority"),
     sys_updated_by |-> Field(d, "sys_updated_by"),
     approval |-> Field(d, "approval"),
     state |-> state,
     sys_created_by |-> created_by,
     target_link |-> link,
     sys_updated_on |-> Field(d, "sys_updated_on")]

\* snow_maps.<map>[item_data["state"]] if "state" in item_data else "N/A"
StateFails(d, map) == "state" \in DOMAIN d /\ d["state"] \notin DOMAIN map

StateLabel(d, map) == IF "state" \in DOMAIN d THEN map[d["state"]] ELSE NA

\* unify_data_for__sc_req_item with the table fixed to "sc_req_item.do".
UnifyReqItemFixedTable(host, item_data) ==
    IF StateFails(item_data, sc_task_state_map) THEN Raised("KeyError", "state")
    ELSE IF "sys_id" \notin DOMAIN item_data THEN Raised("KeyError", "sys_id")
    ELSE Returned(OutData(item_data, StateLabel(item_data, sc_task_state_map),
                          Field(item_data, "sys_created_by"),
                          build_snow_url(host, ScReqItem \o DotDo, item_data["sys_id"])))

\* SnowDataHelper.unify_data_for__sc_req_item (request items and requests)
unify_data_for__sc_req_item(host, item_data) ==
    IF StateFails(item_data, sc_task_state_map) THEN Raised("KeyError", "state")
    ELSE IF "sys_class_name" \notin DOMAIN item_data THEN Raised("KeyError", "sys_class_name")
    ELSE IF "sys_id" \notin DOMAIN item_data THEN Raised("KeyError", "sys_id")
    ELSE Returned(OutData(item_data, StateLabel(item_data, sc_task_state_map),
                          Field(item_data, "sys_created_by"),
                          build_snow_url(host, item_data["sys_class_name"] \o DotDo,
                                         item_data["sys_id"])))

\* unify_data_for__incident reading the task state table.
UnifyIncidentTaskStates(host, item_data) ==
    IF StateFails(item_data, sc_task_state_map) THEN Raised("KeyError", "state")
    ELSE IF "sys_id" \notin DOMAIN item_data THEN Raised("KeyError", "sys_id")
    ELSE Returned(OutData(item_data, StateLabel(item_data, sc_task_state_map),
                          Field(item_data, "sys_created_by"),
                          build_snow_url(host, Incident \o DotDo, item_data["sys_id"])))

\* SnowDataHelper.unify_data_for__incident
unify_data_for__incident(host, item_data) ==
    IF StateFails(item_data, incidents_state_map) THEN Raised("KeyError", "state")
    ELSE IF "sys_id" \notin DOMAIN item_data THEN Raised("KeyError", "sys_id")
    ELSE Returned(OutData(item_data, StateLabel(item_data, incidents_state_map),
                          Field(item_data, "sys_created_by"),
                          build_snow_url(host, Incident \o DotDo, item_data["sys_id"])))

\* if request_item_data: ... ["sys_created_by"] if present else "N/A"; else "N/A"
TaskCreatedBy(request_item_data) ==
    IF request_item_data.given /\ DOMAIN request_item_data.data # {}
    THEN Field(request_item_data.data, "sys_created_by")
    ELSE NA

\* unify_data_for__sc_task defaulting target_link like the other fields.
UnifyTaskLinkDefault(host, task_data, request_item_data) ==
    IF StateFails(task_data, sc_task_state_map) THEN Raised("KeyError", "state")
    ELSE Returned(OutData(task_data, StateLabel(task_data, sc_task_state_map),
                          TaskCreatedBy(request_item_data),
                          IF "sys_id" \in DOMAIN task_data
                          THEN build_snow_url(host, ScTask \o DotDo, task_data["sys_id"])
                          ELSE <<"N", "/", "A">>))

\* unify_data_for__sc_task taking sys_created_by from the task when it has one.
UnifyTaskOwnCreatedBy(host, task_data, request_item_data) ==
    IF StateFails(task_data, sc_task_state_map) THEN Raised("KeyError", "state")
    ELSE IF "sys_id" \notin DOMAIN task_data THEN Raised("KeyError", "sys_id")
    ELSE Returned(OutData(task_data, StateLabel(task_data, sc_task_state_map),
                          IF "sys_created_by" \in DOMAIN task_data
                          THEN task_data["sys_created_by"]
                          ELSE TaskCreatedBy(request_item_data),
                          build_snow_url(host, ScTask \o DotDo, task_data["sys_id"])))

\* SnowDataHelper.unify_data_for__sc_task
unify_data_for__sc_task(host, task_data, request_item_data) ==
    IF StateFails(task_data, sc_task_state_map) THEN Raised("KeyError", "state")
    ELSE IF "sys_id" \notin DOMAIN task_data THEN Raised("KeyError", "sys_id")
    ELSE Returned(OutData(task_data, StateLabel(task_data, sc_task_state_map),
                          TaskCreatedBy(request_item_data),
                          build_snow_url(host, ScTask \o DotDo, task_data["sys_id"])))

\* unify_data_for__change_request writing "" for a missing priority.
UnifyChangeBlankPriority(host, d) ==
    IF "sys_id" \notin DOMAIN d THEN Raised("KeyError", "sys_id")
    ELSE Returned([OutData(d, Field(d, "state"), Field(d, "sys_created_by"),
                           build_snow_url(host, ChangeRequest \o DotDo, d["sys_id"]))
                   EXCEPT !.priority = IF "priority" \in DOMAIN d THEN d["priority"] ELSE ""])

\* SnowDataHelper.unify_data_for__change_request
unify_data_for__change_request(host, d) ==
    IF "sys_id" \notin DOMAIN d THEN Raised("KeyError", "sys_id")
    ELSE Returned(OutData(d, Field(d, "state"), Field(d, "sys_created_by"),
                          build_snow_url(host, ChangeRequest \o DotDo, d["sys_id"])))

--------------------------------------------------------------------------
(* The URL layer on its own: build_snow_url and parse_snow_url applied to  *)
(* bounded inputs.                                                         *)

\* Bounds of the URL inputs.
MaxLen == 3

MaxParams == 2

\* The characters the table names and record ids are drawn from: one plain
\* character (also a hex digit) and the URL delimiters.
UrlChars == {"7", "/", "#", "&", "=", "+", "%", ";"}

Strs(cs, n) == UNION {[1..k -> cs] : k \in 0..n}

Hosts == {<<"s", "n">>, <<"s", "n", ":", "8">>}

Host0 == <<"s", "n">>

KindTables == {ScTask \o DotDo, ScReqItem \o DotDo, ScRequest \o DotDo,
               Incident \o DotDo, ChangeRequest \o DotDo}

SysIds == {<<"a", "b", "c", "1", "2", "3">>, <<"x", "y", "z">>}

NoRet == [err |-> "none", url |-> <<>>, val |-> NoParse]

BuildArg(h, t, i) ==
    [fn |-> "build", host |-> h, table |-> t, sys_id |-> i,
     path |-> <<>>, hasq |-> FALSE, params |-> <<>>, frag |-> FALSE, url |-> <<>>]

BuildArgs ==
    {BuildArg(h, t, i) : h \in Hosts, t \in KindTables, i \in SysIds}
    \cup {BuildArg(Host0, t, i) : t \in {<<"7">>, <<"7", "?", "7">>}, i \in {<<"7">>, <<"7", "?">>}}
    \cup UNION {{BuildArg(Host0, t, i) : t \in [1..k -> UrlChars],
                                         i \in Strs(UrlChars, MaxLen - k)} : k \in 0..MaxLen}

\* The shared links parse_snow_url is given: a path, query parameters and a
\* fragment, written either as they are or percent-encoded the way ServiceNow
\* and build_snow_url write them.
Paths ==
    {<<>>, <<"/", "t", "/">>, <<"/", "t", ";", "v">>, <<"/", "a", ";", "v", "/", "t">>,
     TargetPath \o Incident \o DotDo}

ParamNames == {SysIdKey, <<"x">>}

ParamValues == {<<>>, <<"7">>, <<"a", "+", "=">>, <<"%", "7", "7">>}

\* A parameter: name=value, or a bare name (eq = FALSE).
Params == [name : ParamNames, eq : {TRUE}, value : ParamValues]
          \cup [name : ParamNames, eq : {FALSE}, value : {<<>>}]

ParamText(p) == IF p.eq THEN p.name \o <<"=">> \o p.value ELSE p.name

RECURSIVE JoinParams(_, _)
JoinParams(ps, i) ==
    IF i > Len(ps) THEN <<>>
    ELSE ParamText(ps[i]) \o (IF i < Len(ps) THEN <<"&">> ELSE <<>>) \o JoinParams(ps, i + 1)

\* The decoded text of a link after the host: path, ?query when hasq, #fragment.
LinkText(path, hasq, ps, frag) ==
    path \o (IF hasq THEN <<"?">> \o JoinParams(ps, 1) ELSE <<>>)
         \o (IF frag THEN <<"#", "?">> \o SysIdKey \o <<"=", "7">> ELSE <<>>)

ParseArg(path, hasq, ps, frag, enc) ==
    [fn |-> "parse", host |-> Host0, table |-> <<>>, sys_id |-> <<>>,
     path |-> path, hasq |-> hasq, params |-> ps, frag |-> frag,
     url |-> Https \o Host0 \o (IF enc THEN Quote(LinkText(path, hasq, ps, frag))
                                       ELSE LinkText(path, hasq, ps, frag))]

\* A link is the encoding of the text it decodes to.
ParseArgs ==
    {a \in {ParseArg(path, hasq, ps, frag, enc) :
                path \in Paths, hasq \in BOOLEAN, ps \in Strs(Params, MaxParams),
                frag \in BOOLEAN, enc \in BOOLEAN} :
        /\ a.hasq \/ a.params = <<>>
        /\ Unquote(a.url) = Https \o Host0 \o LinkText(a.path, a.hasq, a.params, a.frag)}

InitUrl ==
    /\ arg \in BuildArgs \cup ParseArgs
    /\ sn_host = arg.host
    /\ op = "none"
    /\ ret = NoRet
    /\ hpc = "off"
    /\ event = <<>>
    /\ src_msg = <<>>
    /\ cat = 0
    /\ idx = 0
    /\ unfurls = {}
    /\ log = <<>>
    /\ err = "none"

\* Core.sdh.build_snow_url(table, sys_id)
BuildSnowUrl ==
    /\ op = "none"
    /\ arg.fn = "build"
    /\ op' = "build_snow_url"
    /\ ret' = [err |-> "none", url |-> build_snow_url(sn_host, arg.table, arg.sys_id),
               val |-> NoParse]
    /\ UNCHANGED <<sn_host, arg, handlerVars>>

\* Core.sdh.parse_snow_url(url) on a shared link
ParseSharedUrl ==
    /\ op = "none"
    /\ arg.fn = "parse"
    /\ op' = "parse_snow_url"
    /\ ret' = Bind(parse_snow_url(arg.url), LAMBDA r :
                    [err |-> r.err, url |-> arg.url, val |-> r.val])
    /\ UNCHANGED <<sn_host, arg, handlerVars>>

\* Core.sdh.parse_snow_url(url) on the URL build_snow_url returned
ParseBuiltUrl ==
    /\ op = "build_snow_url"
    /\ op' = "parse_built_url"
    /\ ret' = Bind(parse_snow_url(ret.url), LAMBDA r :
                    [err |-> r.err, url |-> ret.url, val |-> r.val])
    /\ UNCHANGED <<sn_host, arg, handlerVars>>

NextUrl == BuildSnowUrl \/ ParseSharedUrl \/ ParseBuiltUrl

SpecUrl == InitUrl /\ [][NextUrl]_vars

--------------------------------------------------------------------------
(* The normalizers on their own, applied to every raw ticket made of a     *)
(* subset of the keys they read.                                           *)

CanonicalKeys ==
    {"task_effective_number", "short_description", "sys_created_on", "priority",
     "sys_updated_by", "approval", "state", "sys_created_by", "target_link",
     "sys_updated_on"}

NonLinkKeys == CanonicalKeys \ {"target_link"}

RawKeys == NonLinkKeys \cup {"sys_id", "sys_class_name"}

\* State codes: in both tables, in the task table only, in the incident table
\* only, in neither.
StateCodes == {"1", "3", "6", "9"}

ClassNames == {ScTask, ScReqItem, ScRequest}

FullRaw(st, id, cls) ==
    [task_effective_number |-> "TASK001",
     short_description |-> "Reset VPN token",
     sys_created_on |-> "2024-05-01 08:00:00",
     priority |-> "3",
     sys_updated_by |-> "alice",
     approval |-> "approved",
     state |-> st,
     sys_created_by |-> "bob",
     sys_updated_on |-> "2024-05-02 09:30:00",
     sys_id |-> id,
     sys_class_name |-> cls]

Restrict(f, K) == [k \in K |-> f[k]]

RawTickets ==
    {Restrict(FullRaw(st, id, cls), K) :
        K \in SUBSET RawKeys, st \in StateCodes, id \in SysIds, cls \in ClassNames}

NoReqItem == [given |-> FALSE, data |-> NoTicket]

ReqItemFull == [sys_id |-> <<"r", "i", "1">>, sys_created_by |-> "carol"]

\* The request_item_data of unify_data_for__sc_task: None, {}, a request item
\* with and one without sys_created_by.
ReqItems ==
    {NoReqItem,
     [given |-> TRUE, data |-> NoTicket],
     [given |-> TRUE, data |-> ReqItemFull],
     [given |-> TRUE, data |-> Restrict(ReqItemFull, {"sys_id"})]}

Kinds == {"task", "request_item", "request", "incident", "change_request"}

NormArgs ==
    [kind : {"task"}, raw : RawTickets, ri : ReqItems]
    \cup [kind : Kinds \ {"task"}, raw : RawTickets, ri : {NoReqItem}]

InitNorm ==
    /\ arg \in NormArgs
    /\ sn_host = Host0
    /\ op = "none"
    /\ ret = Returned(NoTicket)
    /\ hpc = "off"
    /\ event = <<>>
    /\ src_msg = <<>>
    /\ cat = 0
    /\ idx = 0
    /\ unfurls = {}
    /\ log = <<>>
    /\ err = "none"

Apply(name, result) ==
    /\ op = "none"
    /\ op' = name
    /\ ret' = result
    /\ UNCHANGED <<sn_host, arg, handlerVars>>

UnifyScTask ==
    /\ arg.kind = "task"
    /\ Apply("unify_data_for__sc_task", unify_data_for__sc_task(sn_host, arg.raw, arg.ri))

UnifyScReqItem ==
    /\ arg.kind \in {"request_item", "request"}
    /\ Apply("unify_data_for__sc_req_item", unify_data_for__sc_req_item(sn_host, arg.raw))

UnifyIncident ==
    /\ arg.kind = "incident"
    /\ Apply("unify_data_for__incident", unify_data_for__incident(sn_host, arg.raw))

UnifyChangeRequest ==
    /\ arg.kind = "change_request"
    /\ Apply("unify_data_for__change_request", unify_data_for__change_request(sn_host, arg.raw))

NextNorm == UnifyScTask \/ UnifyScReqItem \/ UnifyIncident \/ UnifyChangeRequest

SpecNorm == InitNorm /\ [][NextNorm]_vars

--------------------------------------------------------------------------
(* The data helper's fetches.  A fetch is answered by ServiceNow with an   *)
(* outcome the handler does not control: raise_for_status() raising for a  *)
(* status that is not 2xx, response.json() raising for a body that is not  *)
(* JSON, data["result"] raising for a body without result, or the result.  *)

FetchErrors == {"HTTPError", "JSONDecodeError", "KeyError"}

Fetched(v) == [err |-> "none", val |-> v]

FetchRaised(e) == [err |-> e, val |-> NoTicket]

\* A failed fetch raises only for a bad status: the body is used as it is.
FailedStatusOnly(outcome) == outcome.err = "HTTPError"

\* __query_snow_data / data["result"]: whether the fetch raised.
Failed(outcome) == outcome.err # "none"

\* requests.get(url, ...) on /api/now/table/{table}/{sys_id} or
\* /api/now/table/{table}?sysparm_query=task_effective_number={number}
GetCall(table, by, key, outcome) ==
    [call |-> "get", table |-> table, by |-> by, key |-> key, result |-> outcome]

\* The header, sections and link of __create_unfurls: every canonical field but
\* approval.
DisplayedKeys == CanonicalKeys \ {"approval"}

create_unfurls(data) == [blocks |-> Restrict(data, DisplayedKeys)]

NoNorm == [called |-> FALSE, op |-> "none", arg |-> <<>>, ret |-> Returned(NoTicket)]

\* What one lookup did: the calls it made, the exception it raised, the
\* normalizer it applied and, without exception, the blocks it built.
Raise(calls, e) == [calls |-> calls, err |-> e, norm |-> NoNorm, blocks |-> NoTicket]

Normalize(calls, name, a, r) ==
    [calls |-> calls, err |-> r.err,
     norm |-> [called |-> TRUE, op |-> name, arg |-> a, ret |-> r],
     blocks |-> IF r.err = "none" THEN create_unfurls(r.val).blocks ELSE NoTicket]

ReqItem(data) == [given |-> TRUE, data |-> data]

\* The task and its request item handed to unify_data_for__sc_task, the
\* request item fetched when the task has a request_item key.
TaskWithReqItem(host, task_data, calls, r2) ==
    IF "request_item" \in DOMAIN task_data
    THEN Bind(calls \o <<GetCall(ScReqItem, "sys_id", task_data["request_item"].value, r2)>>,
              LAMBDA c2 :
                IF Failed(r2) THEN Raise(c2, r2.err)
                ELSE Normalize(c2, "unify_data_for__sc_task",
                               [kind |-> "task", raw |-> task_data, ri |-> ReqItem(r2.val)],
                               unify_data_for__sc_task(host, task_data, ReqItem(r2.val))))
    ELSE Normalize(calls, "unify_data_for__sc_task",
                   [kind |-> "task", raw |-> task_data, ri |-> NoReqItem],
                   unify_data_for__sc_task(host, task_data, NoReqItem))

\* SnowDataHelper.get_data_for_sc_task
get_data_for_sc_task(host, sys_id, r1, r2) ==
    Bind(<<GetCall(ScTask, "sys_id", sys_id, r1)>>, LAMBDA c1 :
        IF Failed(r1) THEN Raise(c1, r1.err)
        ELSE TaskWithReqItem(host, r1.val, c1, r2))

\* SnowDataHelper.get_data_for_sc_req_item
get_data_for_sc_req_item(host, sys_id, r1) ==
    Bind(<<GetCall(ScReqItem, "sys_id", sys_id, r1)>>, LAMBDA c1 :
        IF Failed(r1) THEN Raise(c1, r1.err)
        ELSE Normalize(c1, "unify_data_for__sc_req_item",
                       [kind |-> "request_item", raw |-> r1.val, ri |-> NoReqItem],
                       unify_data_for__sc_req_item(host, r1.val)))

\* SnowDataHelper.get_data_for_sc_request
get_data_for_sc_request(host, sys_id, r1) ==
    Bind(<<GetCall(ScRequest, "sys_id", sys_id, r1)>>, LAMBDA c1 :
        IF Failed(r1) THEN Raise(c1, r1.err)
        ELSE Normalize(c1, "unify_data_for__sc_req_item",
                       [kind |-> "request", raw |-> r1.val, ri |-> NoReqItem],
                       unify_data_for__sc_req_item(host, r1.val)))

\* SnowDataHelper.get_data_for_incident
get_data_for_incident(host, sys_id, r1) ==
    Bind(<<GetCall(Incident, "sys_id", sys_id, r1)>>, LAMBDA c1 :
        IF Failed(r1) THEN Raise(c1, r1.err)
        ELSE Normalize(c1, "unify_data_for__incident",
                       [kind |-> "incident", raw |-> r1.val, ri |-> NoReqItem],
                       unify_data_for__incident(host, r1.val)))

\* SnowDataHelper.get_data_for_change_request
get_data_for_change_request(host, sys_id, r1) ==
    Bind(<<GetCall(ChangeRequest, "sys_id", sys_id, r1)>>, LAMBDA c1 :
        IF Failed(r1) THEN Raise(c1, r1.err)
        ELSE Normalize(c1, "unify_data_for__change_request",
                       [kind |-> "change_request", raw |-> r1.val, ri |-> NoReqItem],
                       unify_data_for__change_request(host, r1.val)))

--------------------------------------------------------------------------
(* The two event handlers.  An event is handled in steps: the handler's    *)
(* head, then one step for each match of the reacted message or each link  *)
(* of the shared message.  log is the sequence of calls the handler has    *)
(* made to Slack and to ServiceNow while handling the current event, and   *)
(* op, arg, ret hold the last normalizer call of the event.                *)

MaxMatches == 2

MaxLinks == 2

\* Core.SLACK_REACTION_EMOJI
SLACK_REACTION_EMOJI == "servicenow"

Channel == "C024BE91L"

Timestamps == {"1715000000.000100", "1715000000.000200"}

ReactionEvents ==
    [type : {"reaction_added"}, reaction : {SLACK_REACTION_EMOJI, "eyes"},
     item_type : {"message", "file"}, channel : {Channel}, ts : Timestamps]

\* The four scans of handle_reaction_added_events, in the order of the code.
Categories == <<"task", "request_item", "request", "incident">>

CategoryPrefix == <<"TASK", "RITM", "REQ", "INC">>

\* The reacted messages: how many matches each regexp has in the text.
Messages ==
    {m \in [1..Len(Categories) -> 0..MaxMatches] : m[1] + m[2] + m[3] + m[4] <= MaxMatches}

\* match.group() of the i-th match of a scan
MatchGroup(c, i) == <<CategoryPrefix[c], i>>

\* The loops with a break after the first pass: only the first match of a scan
\* is handled.
NextMatchFirstOnly(m, c, i) ==
    Bind({d \in (c + 1)..Len(Categories) : m[d] > 0}, LAMBDA later :
        IF later = {} THEN <<Len(Categories) + 1, 0>>
        ELSE <<CHOOSE d \in later : \A e \in later : d <= e, 1>>)

\* The scan and match handled after match i of scan c; scan 5 is the end of
\* the handler.
NextMatch(m, c, i) ==
    IF c >= 1 /\ i < m[c] THEN <<c, i + 1>>
    ELSE Bind({d \in (c + 1)..Len(Categories) : m[d] > 0}, LAMBDA later :
            IF later = {} THEN <<Len(Categories) + 1, 0>>
            ELSE <<CHOOSE d \in later : \A e \in later : d <= e, 1>>)

RefId == <<"r", "i", "1">>

TicketId == <<"a", "b", "c", "1", "2", "3">>

WithReqItem(t) == t @@ ("request_item" :> [value |-> RefId])

\* What ServiceNow answers for a ticket of a table: a full record, one without
\* sys_id, one with a state code of neither table; tasks with and without a
\* reference to their request item.
TableTickets(table) ==
    Bind(FullRaw("1", TicketId, table), LAMBDA full :
        {full, Restrict(full, RawKeys \ {"sys_id"}), FullRaw("9", TicketId, table)}
        \cup (IF table = ScTask
              THEN {WithReqItem(full), WithReqItem(Restrict(full, {"sys_id", "state"}))}
              ELSE {}))

\* Request items as the by-id fetch returns them.
ReqItemResults == {ri.data : ri \in ReqItems \ {NoReqItem}}

FetchFailures == {FetchRaised(e) : e \in FetchErrors}

ByIdOutcomes(table) == FetchFailures \cup {Fetched(t) : t \in TableTickets(table)}

ByNumberOutcomes(table) ==
    FetchFailures \cup {Fetched(<<>>)} \cup {Fetched(<<t>>) : t \in TableTickets(table)}

ReqItemOutcomes == FetchFailures \cup {Fetched(d) : d \in ReqItemResults}

NoEvent == [type |-> "none"]

NoMessage == [c \in 1..Len(Categories) |-> 0]

\* Core.app.client.conversations_history(channel, inclusive=True, oldest, limit=1)
HistoryCall(channel, ts) ==
    [call |-> "conversations_history", channel |-> channel, inclusive |-> TRUE,
     oldest |-> ts, limit |-> 1]

\* say(blocks=out["blocks"], thread_ts=message_ts)
SayCall(blocks, ts) == [call |-> "say", blocks |-> blocks, thread_ts |-> ts]

AckCall == [call |-> "ack"]

\* Core.app.client.chat_unfurl(channel=channel_id, ts=message_ts, unfurls=unfurls)
UnfurlCall(channel, ts, u) == [call |-> "chat_unfurl", channel |-> channel, ts |-> ts, unfurls |-> u]

\* The guard of the reaction handler with "and" in the place of its "or".
ReactionIgnoredBoth(e) == e.reaction # SLACK_REACTION_EMOJI /\ e.item_type # "message"

\* The guard of handle_reaction_added_events: the event is dropped.
ReactionIgnored(e) == e.reaction # SLACK_REACTION_EMOJI \/ e.item_type # "message"

\* The task scan's body up to the normalizer: the task by its number, its
\* first result, the request item it refers to.
TaskByNumber(host, number, r1, r2) ==
    Bind(<<GetCall(ScTask, "number", number, r1)>>, LAMBDA c1 :
        IF Failed(r1) THEN Raise(c1, r1.err)
        ELSE IF r1.val = <<>> THEN Raise(c1, "IndexError")
        ELSE TaskWithReqItem(host, r1.val[1], c1, r2))

ReqItemByNumber(host, number, r1) ==
    Bind(<<GetCall(ScReqItem, "number", number, r1)>>, LAMBDA c1 :
        IF Failed(r1) THEN Raise(c1, r1.err)
        ELSE IF r1.val = <<>> THEN Raise(c1, "IndexError")
        ELSE Normalize(c1, "unify_data_for__sc_req_item",
                       [kind |-> "request_item", raw |-> r1.val[1], ri |-> NoReqItem],
                       unify_data_for__sc_req_item(host, r1.val[1])))

RequestByNumber(host, number, r1) ==
    Bind(<<GetCall(ScRequest, "number", number, r1)>>, LAMBDA c1 :
        IF Failed(r1) THEN Raise(c1, r1.err)
        ELSE IF r1.val = <<>> THEN Raise(c1, "IndexError")
        ELSE Normalize(c1, "unify_data_for__sc_req_item",
                       [kind |-> "request", raw |-> r1.val[1], ri |-> NoReqItem],
                       unify_data_for__sc_req_item(host, r1.val[1])))

\* The incident loop's body taking an empty result for a ticket without fields.
IncidentByNumberDefaulted(host, number, r1) ==
    Bind(<<GetCall(Incident, "number", number, r1)>>, LAMBDA c1 :
        IF Failed(r1) THEN Raise(c1, r1.err)
        ELSE Bind(IF r1.val = <<>> THEN NoTicket ELSE r1.val[1], LAMBDA d :
                Normalize(c1, "unify_data_for__incident",
                          [kind |-> "incident", raw |-> d, ri |-> NoReqItem],
                          unify_data_for__incident(host, d))))

IncidentByNumber(host, number, r1) ==
    Bind(<<GetCall(Incident, "number", number, r1)>>, LAMBDA c1 :
        IF Failed(r1) THEN Raise(c1, r1.err)
        ELSE IF r1.val = <<>> THEN Raise(c1, "IndexError")
        ELSE Normalize(c1, "unify_data_for__incident",
                       [kind |-> "incident", raw |-> r1.val[1], ri |-> NoReqItem],
                       unify_data_for__incident(host, r1.val[1])))

\* The normalizer call a lookup made, if it made one.
Normalized(step) ==
    IF step.norm.called
    THEN /\ op' = step.norm.op
         /\ arg' = step.norm.arg
         /\ ret' = step.norm.ret
    ELSE UNCHANGED <<op, arg, ret>>

\* A handler call keeps nothing from one event to the next (its variables are
\* local to the call), so a later event would start from the state the first
\* one starts from: one event is followed from its delivery to its end.
HandlerIdle == hpc = "idle"

\* handle_reaction_added_events up to the first scan: the guard, the read of
\* the reacted message, messages[0]["text"].
ReactionAdded ==
    /\ HandlerIdle
    /\ \E e \in ReactionEvents, messages \in {<<>>} \cup {<<m>> : m \in Messages} :
        /\ event' = e
        /\ op' = "none"
        /\ arg' = <<>>
        /\ ret' = Returned(NoTicket)
        /\ unfurls' = {}
        /\ IF ReactionIgnored(e)
           THEN /\ log' = <<>>
                /\ hpc' = "returned"
                /\ err' = "none"
                /\ src_msg' = NoMessage
                /\ cat' = 0
                /\ idx' = 0
           ELSE /\ log' = <<HistoryCall(e.channel, e.ts)>>
                /\ IF messages = <<>>
                   THEN /\ hpc' = "raised"
                        /\ err' = "IndexError"
                        /\ src_msg' = NoMessage
                        /\ cat' = 0
                        /\ idx' = 0
                   ELSE /\ src_msg' = messages[1]
                        /\ cat' = NextMatch(messages[1], 0, 0)[1]
                        /\ idx' = NextMatch(messages[1], 0, 0)[2]
                        /\ hpc' = IF cat' > Len(Categories) THEN "returned" ELSE "scanning"
                        /\ err' = "none"
    /\ UNCHANGED sn_host

\* One pass of a scan loop's body: the lookup, then say() on the thread of the
\* reacted message, then the next match; an exception ends the handler.
ScanStep(step) ==
    /\ Normalized(step)
    /\ IF step.err # "none"
       THEN /\ log' = log \o step.calls
            /\ hpc' = "raised"
            /\ err' = step.err
            /\ UNCHANGED <<cat, idx>>
       ELSE /\ log' = log \o step.calls \o <<SayCall(step.blocks, event.ts)>>
            /\ cat' = NextMatch(src_msg, cat, idx)[1]
            /\ idx' = NextMatch(src_msg, cat, idx)[2]
            /\ hpc' = IF cat' > Len(Categories) THEN "returned" ELSE "scanning"
            /\ UNCHANGED err
    /\ UNCHANGED <<sn_host, event, src_msg, unfurls>>

\* The request task loop
ScanTask ==
    /\ hpc = "scanning"
    /\ cat = 1
    /\ \E r1 \in ByNumberOutcomes(ScTask), r2 \in ReqItemOutcomes :
        ScanStep(TaskByNumber(sn_host, MatchGroup(cat, idx), r1, r2))

\* The request item loop
ScanReqItem ==
    /\ hpc = "scanning"
    /\ cat = 2
    /\ \E r1 \in ByNumberOutcomes(ScReqItem) :
        ScanStep(ReqItemByNumber(sn_host, MatchGroup(cat, idx), r1))

\* The request loop
ScanRequest ==
    /\ hpc = "scanning"
    /\ cat = 3
    /\ \E r1 \in ByNumberOutcomes(ScRequest) :
        ScanStep(RequestByNumber(sn_host, MatchGroup(cat, idx), r1))

\* The incident loop
ScanIncident ==
    /\ hpc = "scanning"
    /\ cat = 4
    /\ \E r1 \in ByNumberOutcomes(Incident) :
        ScanStep(IncidentByNumber(sn_host, MatchGroup(cat, idx), r1))

\* needle in text, on Python strings
IsIn(needle, text) ==
    \E i \in 1..(Len(text) - Len(needle) + 1) : SubSeq(text, i, i + Len(needle) - 1) = needle

TargetMarker == <<"/", "t", "a", "r", "g", "e", "t", "/">>

\* "sys_id" in link["url"] and "/target/" in link["url"]
IsSnowLink(url) == IsIn(SysIdKey, url) /\ IsIn(TargetMarker, url)

\* "/target/{table}.do" in link["url"]
HasMarker(url, table) == IsIn(TargetMarker \o table \o DotDo, url)

\* The branch of the if/elif chain a link takes.
LinkKind(url) ==
    IF HasMarker(url, ScTask) THEN "task"
    ELSE IF HasMarker(url, ScReqItem) THEN "request_item"
    ELSE IF HasMarker(url, ScRequest) THEN "request"
    ELSE IF HasMarker(url, Incident) THEN "incident"
    ELSE IF HasMarker(url, ChangeRequest) THEN "change_request"
    ELSE "other"

Problem == <<"p", "r", "o", "b", "l", "e", "m">>

\* The links of a message: a ServiceNow link of each kind as build_snow_url
\* writes it, an incident link with a literal query, a link to another table,
\* a link without a sys_id value, a link to somewhere else.
LinkUrls ==
    {build_snow_url(Host0, t \o DotDo, TicketId) :
        t \in {ScTask, ScReqItem, ScRequest, Incident, ChangeRequest, Problem}}
    \cup {Https \o SnowUrlText(Host0, Incident \o DotDo, TicketId),
          build_snow_url(Host0, Incident \o DotDo, <<>>),
          Https \o Host0 \o <<"/", "k", "b">>}

LinksUpTo(n) == UNION {[1..k -> LinkUrls] : k \in 0..n}

LinkEvents ==
    [type : {"link_shared"}, channel : {Channel}, message_ts : Timestamps,
     links : LinksUpTo(MaxLinks)]

\* handle_link_shared_event up to its loop: ack(), unfurls = {}; for an event
\* without links the loop is empty and chat_unfurl follows at once.
LinkShared ==
    /\ HandlerIdle
    /\ \E e \in LinkEvents :
        /\ event' = e
        /\ IF e.links = <<>>
           THEN /\ log' = <<AckCall, UnfurlCall(e.channel, e.message_ts, {})>>
                /\ hpc' = "returned"
                /\ idx' = 0
           ELSE /\ log' = <<AckCall>>
                /\ hpc' = "links"
                /\ idx' = 1
    /\ op' = "none"
    /\ arg' = <<>>
    /\ ret' = Returned(NoTicket)
    /\ unfurls' = {}
    /\ src_msg' = NoMessage
    /\ cat' = 0
    /\ err' = "none"
    /\ UNCHANGED sn_host

\* unfurls[link["url"]] = value
SetItem(u, url, value) == {e \in u : e.url # url} \cup {[url |-> url, value |-> value]}

\* The end of one pass of the links loop: the next link, or after the last
\* one chat_unfurl with the unfurls collected.
LinkDone(calls, u) ==
    /\ unfurls' = u
    /\ IF idx < Len(event.links)
       THEN /\ log' = log \o calls
            /\ idx' = idx + 1
            /\ hpc' = "links"
       ELSE /\ log' = log \o calls \o <<UnfurlCall(event.channel, event.message_ts, u)>>
            /\ idx' = idx
            /\ hpc' = "returned"
    /\ UNCHANGED <<sn_host, event, src_msg, cat, err>>

\* The links loop in a try/finally that publishes what was collected.
LinkRaisedPublishing(calls, e) ==
    /\ log' = log \o calls \o <<UnfurlCall(event.channel, event.message_ts, unfurls)>>
    /\ hpc' = "raised"
    /\ err' = e
    /\ UNCHANGED <<sn_host, event, src_msg, cat, idx, unfurls>>

LinkRaised(calls, e) ==
    /\ log' = log \o calls
    /\ hpc' = "raised"
    /\ err' = e
    /\ UNCHANGED <<sn_host, event, src_msg, cat, idx, unfurls>>

\* A link that is not a ServiceNow record link: the if of the loop is false.
IgnoreLink ==
    /\ hpc = "links"
    /\ ~IsSnowLink(event.links[idx])
    /\ LinkDone(<<>>, unfurls)
    /\ UNCHANGED <<op, arg, ret>>

\* A record link of a table the handler has no branch for: parsed, then
\* "continue".
ContinueLink ==
    /\ hpc = "links"
    /\ IsSnowLink(event.links[idx])
    /\ LinkKind(event.links[idx]) = "other"
    /\ \E url_data \in {parse_snow_url(event.links[idx])} :
        IF url_data.err # "none"
        THEN LinkRaised(<<>>, url_data.err)
        ELSE LinkDone(<<>>, unfurls)
    /\ UNCHANGED <<op, arg, ret>>

\* unfurls[url] = __create_unfurls(get_data_for_...(sys_id)) for a parsed link
UnfurlStep(url, step) ==
    /\ Normalized(step)
    /\ IF step.err # "none"
       THEN LinkRaised(step.calls, step.err)
       ELSE LinkDone(step.calls, SetItem(unfurls, url, [blocks |-> step.blocks]))

\* The task branch of the links loop, after parse_snow_url
UnfurlTask ==
    /\ hpc = "links"
    /\ IsSnowLink(event.links[idx])
    /\ LinkKind(event.links[idx]) = "task"
    /\ \E url_data \in {parse_snow_url(event.links[idx])} :
        IF url_data.err # "none"
        THEN LinkRaised(<<>>, url_data.err) /\ UNCHANGED <<op, arg, ret>>
        ELSE \E r1 \in ByIdOutcomes(ScTask), r2 \in ReqItemOutcomes :
                UnfurlStep(event.links[idx], get_data_for_sc_task(sn_host, url_data.val.sys_id, r1, r2))

\* The request_item branch of the links loop, after parse_snow_url
UnfurlReqItem ==
    /\ hpc = "links"
    /\ IsSnowLink(event.links[idx])
    /\ LinkKind(event.links[idx]) = "request_item"
    /\ \E url_data \in {parse_snow_url(event.links[idx])} :
        IF url_data.err # "none"
        THEN LinkRaised(<<>>, url_data.err) /\ UNCHANGED <<op, arg, ret>>
        ELSE \E r1 \in ByIdOutcomes(ScReqItem) :
                UnfurlStep(event.links[idx], get_data_for_sc_req_item(sn_host, url_data.val.sys_id, r1))

\* The request branch of the links loop, after parse_snow_url
UnfurlRequest ==
    /\ hpc = "links"
    /\ IsSnowLink(event.links[idx])
    /\ LinkKind(event.links[idx]) = "request"
    /\ \E url_data \in {parse_snow_url(event.links[idx])} :
        IF url_data.err # "none"
        THEN LinkRaised(<<>>, url_data.err) /\ UNCHANGED <<op, arg, ret>>
        ELSE \E r1 \in ByIdOutcomes(ScRequest) :
                UnfurlStep(event.links[idx], get_data_for_sc_request(sn_host, url_data.val.sys_id, r1))

\* The incident branch of the links loop, after parse_snow_url
UnfurlIncident ==
    /\ hpc = "links"
    /\ IsSnowLink(event.links[idx])
    /\ LinkKind(event.links[idx]) = "incident"
    /\ \E url_data \in {parse_snow_url(event.links[idx])} :
        IF url_data.err # "none"
        THEN LinkRaised(<<>>, url_data.err) /\ UNCHANGED <<op, arg, ret>>
        ELSE \E r1 \in ByIdOutcomes(Incident) :
                UnfurlStep(event.links[idx], get_data_for_incident(sn_host, url_data.val.sys_id, r1))

\* The change_request branch of the links loop, after parse_snow_url
UnfurlChangeRequest ==
    /\ hpc = "links"
    /\ IsSnowLink(event.links[idx])
    /\ LinkKind(event.links[idx]) = "change_request"
    /\ \E url_data \in {parse_snow_url(event.links[idx])} :
        IF url_data.err # "none"
        THEN LinkRaised(<<>>, url_data.err) /\ UNCHANGED <<op, arg, ret>>
        ELSE \E r1 \in ByIdOutcomes(ChangeRequest) :
                UnfurlStep(event.links[idx], get_data_for_change_request(sn_host, url_data.val.sys_id, r1))

Init ==
    /\ sn_host = Host0
    /\ op = "none"
    /\ arg = <<>>
    /\ ret = Returned(NoTicket)
    /\ hpc = "idle"
    /\ event = NoEvent
    /\ src_msg = NoMessage
    /\ cat = 0
    /\ idx = 0
    /\ unfurls = {}
    /\ log = <<>>
    /\ err = "none"

Next ==
    \/ ReactionAdded
    \/ ScanTask
    \/ ScanReqItem
    \/ ScanRequest
    \/ ScanIncident
    \/ LinkShared
    \/ IgnoreLink
    \/ ContinueLink
    \/ UnfurlTask
    \/ UnfurlReqItem
    \/ UnfurlRequest
    \/ UnfurlIncident
    \/ UnfurlChangeRequest

Spec == Init /\ [][Next]_vars

--------------------------------------------------------------------------
(* Claims about the normalizers (checked under SpecNorm).                  *)

Unified ==
    op \in {"unify_data_for__sc_task", "unify_data_for__sc_req_item",
            "unify_data_for__incident", "unify_data_for__change_request"}

Has(k) == k \in DOMAIN arg.raw

\* The state table of a kind; the change request has none.
UsesTaskStates == arg.kind \in {"task", "request_item", "request"}

StateKnown ==
    \/ ~Has("state")
    \/ arg.kind = "change_request"
    \/ UsesTaskStates /\ arg.raw["state"] \in {"1", "2", "3"}
    \/ arg.kind = "incident" /\ arg.raw["state"] \in {"1", "2", "6"}

\* What the link needs besides sys_id: the request-item normalizer reads the
\* table name from sys_class_name.
LinkFieldsPresent ==
    Has("sys_id") /\ (arg.kind \in {"request_item", "request"} => Has("sys_class_name"))

\* Where a canonical field is read from: sys_created_by of a task comes from
\* the request item, every other field from the raw ticket.
SourceHas(k) ==
    IF arg.kind = "task" /\ k = "sys_created_by"
    THEN arg.ri.given /\ k \in DOMAIN arg.ri.data
    ELSE Has(k)

KindTable ==
    CASE arg.kind = "task" -> ScTask \o DotDo
      [] arg.kind = "incident" -> Incident \o DotDo
      [] arg.kind = "change_request" -> ChangeRequest \o DotDo
      [] OTHER -> Field(arg.raw, "sys_class_name") \o DotDo

\* The link decodes to the UI address of that table and record.
LinkTargets(link, table, sys_id) ==
    /\ Unquote(link) = Https \o sn_host \o TargetPath \o table \o SysIdQuery \o sys_id
    /\ parse_snow_url(link).val = [table |-> table, sys_id |-> sys_id]

\* C2, as stated: with a sys_id (and a state the table knows) every normalizer
\* produces target_link, and no other raw field has to be present.
C2_SysIdSuffices ==
    Unified /\ Has("sys_id") /\ StateKnown => ret.err = "none"

\* C2, amended: with a sys_id and a state the table knows, the task, incident
\* and change-request normalizers always produce target_link, for sc_task.do,
\* incident.do and change_request.do and that sys_id; the request-item
\* normalizer (request items and requests) also needs sys_class_name, links to
\* {sys_class_name}.do, and raises KeyError without it.
C2_LinkTargetsTable ==
    Unified /\ Has("sys_id") /\ StateKnown =>
        IF arg.kind \in {"request_item", "request"} /\ ~Has("sys_class_name")
        THEN ret.err = "KeyError" /\ ret.key = "sys_class_name"
        ELSE ret.err = "none" /\ LinkTargets(ret.val["target_link"], KindTable, arg.raw["sys_id"])

\* C2 witness: the request-item normalizer given task_effective_number, sys_id
\* "abc123" and sys_class_name "sc_task" links to sc_task.do, id abc123.
C2_Witness ==
    /\ Unified
    /\ arg.kind = "request_item"
    /\ DOMAIN arg.raw = {"task_effective_number", "sys_id", "sys_class_name"}
    /\ arg.raw["sys_class_name"] = ScTask
    /\ ret.err = "none"
    /\ parse_snow_url(ret.val["target_link"]).val
         = [table |-> ScTask \o DotDo, sys_id |-> <<"a", "b", "c", "1", "2", "3">>]
    /\ ret.val["short_description"] = NA
    /\ ret.val["state"] = NA

\* The exception parse_snow_url raises for a URL without sys_id.
ParseErrorKind == parse_snow_url(Https \o sn_host \o TargetPath \o Incident \o DotDo).err

\* C6, as stated: without sys_id every normalizer fails with the error kind
\* parse_snow_url raises for a missing sys_id, and returns no ticket.
C6_SameErrorKind ==
    Unified /\ ~Has("sys_id") => ret.err = ParseErrorKind /\ DOMAIN ret.val = {}

\* C6, amended: without sys_id every normalizer fails with KeyError, which is
\* not the ValueError parse_snow_url raises, and returns no ticket: no
\* target_link sentinel, no partly filled output.
C6_KeyErrorNoTicket ==
    Unified /\ ~Has("sys_id") =>
        /\ ret.err = "KeyError"
        /\ ParseErrorKind = "ValueError"
        /\ DOMAIN ret.val = {}

\* C6 witness: a task that has every key but sys_id raises KeyError for sys_id.
C6_Witness ==
    /\ Unified
    /\ arg.kind = "task"
    /\ DOMAIN arg.raw = RawKeys \ {"sys_id"}
    /\ arg.raw["state"] = "1"
    /\ ret.err = "KeyError"
    /\ ret.key = "sys_id"

\* C7: a raw state is translated by the task table for tasks, request items and
\* requests, by the incident table for incidents, and copied for change
\* requests; a code the table lacks makes the normalization fail.
C7_StateTranslation ==
    Unified /\ Has("state") =>
        LET code == arg.raw["state"]
        IN  /\ UsesTaskStates =>
                IF code \in DOMAIN sc_task_state_map
                THEN /\ LinkFieldsPresent => ret.err = "none"
                     /\ ret.err = "none" => ret.val["state"] = sc_task_state_map[code]
                ELSE ret.err = "KeyError" /\ DOMAIN ret.val = {}
            /\ arg.kind = "incident" =>
                IF code \in DOMAIN incidents_state_map
                THEN /\ LinkFieldsPresent => ret.err = "none"
                     /\ ret.err = "none" => ret.val["state"] = incidents_state_map[code]
                ELSE ret.err = "KeyError" /\ DOMAIN ret.val = {}
            /\ arg.kind = "change_request" =>
                /\ LinkFieldsPresent => ret.err = "none"
                /\ ret.err = "none" => ret.val["state"] = code

\* C7 witness: state "1" reads "New" on an incident; a code outside the table
\* would have failed.
C7_Witness ==
    /\ Unified
    /\ arg.kind = "incident"
    /\ Has("state")
    /\ arg.raw["state"] = "1"
    /\ ret.err = "none"
    /\ ret.val["state"] = "New"

--------------------------------------------------------------------------
(* Claims about the URL layer (checked under SpecUrl).                     *)

Built == op = "build_snow_url"

Unsafe(s) == {i \in 1..Len(s) : s[i] \notin AlwaysSafe \cup {"/"}}

EndsWith(s, t) == Len(s) >= Len(t) /\ SubSeq(s, Len(s) - Len(t) + 1, Len(s)) = t

\* C3, as stated: build_snow_url(table, sys_id) is exactly the text
\* https://{host}/now/nav/ui/classic/params/target/{table}?sys_id={sys_id},
\* with a literal "?" and "=" and the host untouched.
C3_LiteralUrl ==
    Built => ret.url = Https \o SnowUrlText(sn_host, arg.table, arg.sys_id)

\* C3, amended: build_snow_url returns https:// followed by the percent-encoding
\* of {host}/now/nav/ui/classic/params/target/{table}?sys_id={sys_id}: it decodes
\* to that text, only letters, digits, "_", ".", "-", "~" and "/" stay as they are,
\* and every other character (the "?" and "=" of the query, a ":" of the host)
\* is written as one %XX escape.
C3_EncodedUrl ==
    Built =>
        LET text == SnowUrlText(sn_host, arg.table, arg.sys_id)
            body == From(ret.url, Len(Https) + 1)
        IN  /\ SubSeq(ret.url, 1, Len(Https)) = Https
            /\ Unquote(body) = text
            /\ \A i \in 1..Len(body) : body[i] \in AlwaysSafe \cup {"/", "%"}
            /\ Len(body) = Len(text) + 2 * Cardinality(Unsafe(text))

\* C3 witness: build_snow_url("incident.do", "xyz") on a host with a port ends
\* in /target/incident.do%3Fsys_id%3Dxyz and the host's ":" is written %3A.
C3_Witness ==
    /\ Built
    /\ ret.url = Https \o <<"s", "n", "%", "3", "A", "8">> \o TargetPath \o Incident \o DotDo
                 \o <<"%", "3", "F">> \o SysIdKey \o <<"%", "3", "D", "x", "y", "z">>

RoundTripped == op = "parse_built_url"

RoundTripOk == ret.err = "none" /\ ret.val = [table |-> arg.table, sys_id |-> arg.sys_id]

HasEscape(s) == \E i \in 1..Len(s) : s[i] = "%" /\ i + 2 <= Len(s) /\ IsHex(s[i + 1]) /\ IsHex(s[i + 2])

Contains(s, cs) == \E i \in 1..Len(s) : s[i] \in cs

\* C4, as stated: parse_snow_url(build_snow_url(table, id)) returns
\* {table: table, sys_id: id} for every table and id, URL delimiters included.
C4_RoundTripAll == RoundTripped => RoundTripOk

\* C4, amended: parse_snow_url(build_snow_url(table, id)) returns
\* {table: table, sys_id: id} exactly when the table has none of "/", ";", "?",
\* "#" and the id is not empty and has none of "&", "#", "+" and no %XX escape;
\* otherwise it returns another table or id, or raises ValueError.
C4_RoundTripPlain ==
    RoundTripped =>
        (RoundTripOk <=> /\ ~Contains(arg.table, {"/", ";", "?", "#"})
                         /\ arg.sys_id # <<>>
                         /\ ~Contains(arg.sys_id, {"&", "#", "+"})
                         /\ ~HasEscape(arg.sys_id))

\* C4 witness: a built incident URL parsed back to its table and id.
C4_Witness ==
    /\ RoundTripped
    /\ arg.table = Incident \o DotDo
    /\ ret.val = [table |-> Incident \o DotDo, sys_id |-> <<"x", "y", "z">>]

ParsedShared == op = "parse_snow_url"

\* The last "/" piece of a path, without the ;parameters urlparse splits off.
LastSegment(path) ==
    LET segs == Split(path, "/")
        last == segs[Len(segs)]
    IN  SubSeq(last, 1, FindFrom(last, {";"}, 1) - 1)

QsDecoded(v) == Unquote(PlusToSpace(v))

SysIdParams == SelectSeq(arg.params, LAMBDA q : q.name = SysIdKey)

FilledSysIdParams == SelectSeq(arg.params, LAMBDA q : q.name = SysIdKey /\ q.eq /\ q.value # <<>>)

\* C5, as stated: ValueError when the decoded query has no sys_id parameter;
\* with a sys_id parameter, the last path segment and the first sys_id value.
C5_FirstSysId ==
    ParsedShared =>
        IF SysIdParams = <<>>
        THEN ret.err = "ValueError" /\ ret.val = NoParse
        ELSE /\ ret.err = "none"
             /\ ret.val = [table |-> LastSegment(arg.path),
                           sys_id |-> QsDecoded(SysIdParams[1].value)]

\* C5, amended: ValueError when the decoded query has no sys_id parameter with a
\* value that is not empty; otherwise the last path segment and the first
\* sys_id value that is not empty.
C5_FirstFilledSysId ==
    ParsedShared =>
        IF FilledSysIdParams = <<>>
        THEN ret.err = "ValueError" /\ ret.val = NoParse
        ELSE /\ ret.err = "none"
             /\ ret.val = [table |-> LastSegment(arg.path),
                           sys_id |-> QsDecoded(FilledSysIdParams[1].value)]

\* C5 witness: ?sys_id=&sys_id=7 on a ServiceNow path, parsed to the id "7".
C5_Witness ==
    /\ ParsedShared
    /\ Len(arg.params) = 2
    /\ arg.params[1] = [name |-> SysIdKey, eq |-> TRUE, value |-> <<>>]
    /\ arg.params[2].name = SysIdKey
    /\ arg.path = TargetPath \o Incident \o DotDo
    /\ ret.err = "none"
    /\ ret.val = [table |-> Incident \o DotDo, sys_id |-> <<"7">>]


--------------------------------------------------------------------------
(* Claims about the handlers (checked under Spec).                         *)

\* A logged fetch of a task that returned a task payload.
HasTaskPayload(e) ==
    /\ e.call = "get"
    /\ e.table = ScTask
    /\ e.result.err = "none"
    /\ e.by = "number" => Len(e.result.val) > 0

TaskPayload(e) == IF e.by = "number" THEN e.result.val[1] ELSE e.result.val

IsReqItemGet(e) == e.call = "get" /\ e.table = ScReqItem /\ e.by = "sys_id"

\* sys_created_by as the claim gives it for a request item handed over or not.
CreatedByOf(ri) ==
    IF ri.given /\ ri.data # NoTicket /\ "sys_created_by" \in DOMAIN ri.data
    THEN ri.data["sys_created_by"]
    ELSE "N/A"

\* The step looked a task up: the calls it added to the log begin with the
\* fetch of a task that returned a payload.
TaskLookedUp ==
    /\ Len(log') > Len(log)
    /\ SubSeq(log', 1, Len(log)) = log
    /\ HasTaskPayload(log'[Len(log) + 1])

ReqItemFetched == Len(log') >= Len(log) + 2 /\ IsReqItemGet(log'[Len(log) + 2])

ReqItemHanded ==
    IF ReqItemFetched THEN ReqItem(log'[Len(log) + 2].result.val) ELSE NoReqItem

\* The blocks the step posted or stored for its lookup show created_by.
ShowsCreatedBy(created_by) ==
    /\ hpc = "scanning" =>
        /\ log'[Len(log')].call = "say"
        /\ log'[Len(log')].blocks["sys_created_by"] = created_by
    /\ hpc = "links" =>
        \E u \in unfurls' :
            u.url = event.links[idx] /\ u.value.blocks["sys_created_by"] = created_by

C8_TaskStep ==
    TaskLookedUp =>
        LET task_data == TaskPayload(log'[Len(log) + 1]) IN
        /\ ReqItemFetched <=> "request_item" \in DOMAIN task_data
        /\ ReqItemFetched => log'[Len(log) + 2].key = task_data["request_item"].value
        /\ (ReqItemFetched => log'[Len(log) + 2].result.err = "none") =>
            /\ op' = "unify_data_for__sc_task"
            /\ arg'.raw = task_data
            /\ arg'.ri = ReqItemHanded
            /\ ret'.err = "none" =>
                /\ ret'.val["sys_created_by"] = CreatedByOf(ReqItemHanded)
                /\ ShowsCreatedBy(CreatedByOf(ReqItemHanded))

\* C8: in both task paths (link by id, reaction by number) the request item
\* is fetched exactly when the task payload has a request_item key, by the id
\* the key refers to, and the task normalizer's sys_created_by is the request
\* item's when one is handed over and has the key, "N/A" otherwise, whatever
\* the task payload's own sys_created_by.
C8_CreatedByFromReqItem == [][C8_TaskStep]_vars

\* A reply to a reaction showing the request item's creator for a task whose
\* own payload names another creator.
C8_Witness ==
    /\ event.type = "reaction_added"
    /\ \E i \in 1..(Len(log) - 2) :
        /\ HasTaskPayload(log[i])
        /\ "request_item" \in DOMAIN TaskPayload(log[i])
        /\ "sys_created_by" \in DOMAIN TaskPayload(log[i])
        /\ TaskPayload(log[i])["sys_created_by"] = "bob"
        /\ IsReqItemGet(log[i + 1])
        /\ log[i + 1].result = Fetched(ReqItemFull)
        /\ log[i + 2].call = "say"
        /\ log[i + 2].blocks["sys_created_by"] = "carol"

FetchFailedAt(i) == log[i].call = "get" /\ log[i].result.err # "none"

\* C9: in both handlers a failed ticket fetch (bad status, unparsable body,
\* missing result) is the last call of the event: the handler has ended with
\* that exception, and no retry, reply or preview follows it.
C9_FetchFailurePropagates ==
    \A i \in 1..Len(log) :
        FetchFailedAt(i) =>
            /\ i = Len(log)
            /\ hpc = "raised"
            /\ err = log[i].result.err

\* A link event whose second lookup failed on an unparsable body after the
\* first one had succeeded.
C9_Witness ==
    /\ event.type = "link_shared"
    /\ \E i \in 3..Len(log) :
        /\ FetchFailedAt(i)
        /\ log[i].result.err = "JSONDecodeError"
        /\ unfurls # {}

Triggering == event.reaction = SLACK_REACTION_EMOJI /\ event.item_type = "message"

\* C10: a reaction event that is not the trigger emoji on a message causes no
\* call at all; a triggering one reads the channel history once, for exactly
\* the reacted message (oldest = its timestamp, inclusive, limit 1), and each
\* reply is threaded on that timestamp.
C10_ReactionGuard ==
    event.type = "reaction_added" =>
        /\ ~Triggering => log = <<>> /\ hpc = "returned"
        /\ Triggering =>
            /\ Len(log) >= 1
            /\ log[1] = [call |-> "conversations_history", channel |-> event.channel,
                         inclusive |-> TRUE, oldest |-> event.ts, limit |-> 1]
            /\ \A i \in 2..Len(log) :
                /\ log[i].call # "conversations_history"
                /\ log[i].call = "say" => log[i].thread_ts = event.ts

\* Two replies threaded on the reacted message.
C10_Witness ==
    /\ event.type = "reaction_added"
    /\ Triggering
    /\ Cardinality({i \in 1..Len(log) : log[i].call = "say" /\ log[i].thread_ts = event.ts}) = 2


\* The table each scan fetches from, in the order of the scans.
CategoryTable == <<ScTask, ScReqItem, ScRequest, Incident>>

\* How many matches the scans before scan c have.
MatchesBefore(m, c) ==
    LET sum[d \in 0..Len(Categories)] == IF d = 0 THEN 0 ELSE sum[d - 1] + m[d]
    IN sum[c - 1]

TotalMatches(m) == MatchesBefore(m, Len(Categories) + 1)

\* The k-th ticket reference of the message, in the order task, request item,
\* request, incident and, within a scan, in the order of the text.
KthMatch(m, k) ==
    LET c == CHOOSE d \in 1..Len(Categories) :
                MatchesBefore(m, d) < k /\ k <= MatchesBefore(m, d) + m[d]
    IN <<c, k - MatchesBefore(m, c)>>

ByNumberGets == {i \in 1..Len(log) : log[i].call = "get" /\ log[i].by = "number"}

ByIdGets == {i \in 1..Len(log) : log[i].call = "get" /\ log[i].by = "sys_id"}

Gets == {i \in 1..Len(log) : log[i].call = "get"}

Says == {i \in 1..Len(log) : log[i].call = "say"}

ReactionHandled == event.type = "reaction_added" /\ Triggering

\* C11, as stated: a reaction event handled to its end has made exactly one
\* ticket fetch and one reply for each of the N references of the message.
C11_OneFetchPerMatch ==
    ReactionHandled /\ hpc = "returned" =>
        /\ Cardinality(Gets) = TotalMatches(src_msg)
        /\ Cardinality(Says) = TotalMatches(src_msg)

\* The k-th by-number fetch is for the k-th reference, and the k - 1 replies
\* to the references before it have all been posted, the last of them just
\* before this fetch.
FetchedInOrder(i) ==
    LET k == Cardinality({j \in ByNumberGets : j <= i}) IN
    /\ k <= TotalMatches(src_msg)
    /\ log[i].table = CategoryTable[KthMatch(src_msg, k)[1]]
    /\ log[i].key = MatchGroup(KthMatch(src_msg, k)[1], KthMatch(src_msg, k)[2])
    /\ Cardinality({j \in Says : j < i}) = k - 1
    /\ k > 1 => log[i - 1].call = "say"

\* A fetch by id is the request item of the task fetched just before it.
ReqItemOfTask(j) ==
    /\ IsReqItemGet(log[j])
    /\ HasTaskPayload(log[j - 1])
    /\ log[j - 1].by = "number"
    /\ "request_item" \in DOMAIN TaskPayload(log[j - 1])

\* C11, amended: the references are handled in the order task, request item,
\* request, incident, each by one fetch by number, for a task whose payload
\* has a request_item key one more fetch of that request item, and then one
\* threaded reply, before the next reference is fetched; a handler that
\* reaches its end has made N fetches by number and N replies for the N
\* references, and one more fetch for each such task.
C11_OneLookupPerMatch ==
    ReactionHandled =>
        /\ \A i \in ByNumberGets : FetchedInOrder(i)
        /\ \A j \in ByIdGets : ReqItemOfTask(j)
        /\ \A i \in Says : log[i].thread_ts = event.ts /\ log[i - 1].call = "get"
        /\ Cardinality(Says) <= Cardinality(ByNumberGets)
        /\ hpc = "returned" =>
            /\ Cardinality(ByNumberGets) = TotalMatches(src_msg)
            /\ Cardinality(Says) = TotalMatches(src_msg)
            /\ Len(log) = 1 + Cardinality(Gets) + Cardinality(Says)

\* A message with a task and an incident handled to the end: two replies
\* after three fetches, the task's request item being the third.
C11_Witness ==
    /\ ReactionHandled
    /\ hpc = "returned"
    /\ src_msg = [c \in 1..Len(Categories) |-> IF c \in {1, 4} THEN 1 ELSE 0]
    /\ Cardinality(Says) = 2
    /\ Cardinality(ByNumberGets) = 2
    /\ Cardinality(ByIdGets) = 1


\* A fetch by number that returned an empty result list.
EmptyResultAt(i) ==
    /\ log[i].call = "get"
    /\ log[i].by = "number"
    /\ log[i].result.err = "none"
    /\ Len(log[i].result.val) = 0

\* C12: in the reaction handler a fetch by number that returns an empty list
\* is the last call of the event: the handler has ended with IndexError on
\* result[0], without a reply for that match and without any call for a later
\* match or scan, and the replies to the matches before it are in the log.
C12_EmptyResultFaults ==
    ReactionHandled =>
        \A i \in ByNumberGets :
            EmptyResultAt(i) =>
                /\ i = Len(log)
                /\ hpc = "raised"
                /\ err = "IndexError"
                /\ Cardinality(ByNumberGets) <= TotalMatches(src_msg)
                /\ Cardinality(Says) = Cardinality(ByNumberGets) - 1
                /\ \A j \in Says : j < i /\ log[j].thread_ts = event.ts

\* A message with a task and an incident: the task was answered, the fetch of
\* the incident returned nothing.
C12_Witness ==
    /\ ReactionHandled
    /\ src_msg = [c \in 1..Len(Categories) |-> IF c \in {1, 4} THEN 1 ELSE 0]
    /\ hpc = "raised"
    /\ Cardinality(Says) = 1
    /\ EmptyResultAt(Len(log))
    /\ log[Len(log)].table = Incident


\* The URL contains "sys_id", "/target/" and the marker of one of the five
\* kinds.
Previewable(url) ==
    /\ IsIn(SysIdKey, url)
    /\ IsIn(TargetMarker, url)
    /\ \E t \in {ScTask, ScReqItem, ScRequest, Incident, ChangeRequest} :
        IsIn(TargetMarker \o t \o DotDo, url)

PreviewableLinks == {event.links[k] : k \in {n \in 1..Len(event.links) : Previewable(event.links[n])}}

UnfurlCalls == {i \in 1..Len(log) : log[i].call = "chat_unfurl"}

\* C13: the link handler calls ack() first, before any fetch, and chat_unfurl
\* at most once, as the last call of a handler that processed every link, for
\* the event's channel and message, with one entry for exactly the links that
\* contain "sys_id", "/target/" and a kind marker, the map being empty if there
\* are none; a handler ended by an exception has not called chat_unfurl, even
\* if it had collected previews.
C13_UnfurlAllOrNothing ==
    event.type = "link_shared" =>
        /\ Len(log) >= 1
        /\ log[1].call = "ack"
        /\ \A i \in 2..Len(log) : log[i].call # "ack"
        /\ Cardinality(UnfurlCalls) <= 1
        /\ \A i \in UnfurlCalls :
            /\ i = Len(log)
            /\ hpc = "returned"
            /\ idx = Len(event.links)
            /\ log[i].channel = event.channel
            /\ log[i].ts = event.message_ts
            /\ {u.url : u \in log[i].unfurls} = PreviewableLinks
            /\ Cardinality(log[i].unfurls) = Cardinality(PreviewableLinks)
        /\ hpc = "returned" => UnfurlCalls # {}
        /\ hpc = "raised" => UnfurlCalls = {}

\* Two links: the first was fetched and its preview collected, the second
\* did not parse, and nothing was published.
C13_Witness ==
    /\ event.type = "link_shared"
    /\ hpc = "raised"
    /\ err = "ValueError"
    /\ idx = 2
    /\ unfurls # {}
    /\ UnfurlCalls = {}

==========================================================================
